---------------------------- MODULE Spec2Model ----------------------------
(***************************************************************************)
(* A model of the evolve rules engine: evolve/game/models.py (Game,        *)
(* Player, BattleResult) over the read-only catalog of                     *)
(* evolve/rules/models.py.                                                 *)
(*                                                                         *)
(* The database is the state.  A Django model instance is a copy of a row  *)
(* taken when the query ran; save() writes the copy's scalar fields back,  *)
(* many-to-many fields (buildings, current_options, discards) are written  *)
(* straight to the database by add/remove/clear.  An exception leaves the  *)
(* rows written so far in place (no transaction is opened anywhere).       *)
(***************************************************************************)
EXTENDS Integers, Sequences, FiniteSets, TLC

VARIABLES
    conf,      \* the installation: constants module values and catalog rows
    game,      \* the Game row
    players,   \* the Player rows of the game, in _order (join order)
    battles,   \* the BattleResult rows
    procs,     \* per seat: the position of an in-flight play() request
    last,      \* what the last operation did (observation only)
    dealt,     \* per seat: the hand the last successful shuffle dealt (history)
    wild,      \* decisions still to be drawn from the wide menu
    call       \* a call of a function of the rules: its name, arguments, value

vars == <<conf, game, players, battles, procs, last, dealt, wild, call>>

----------------------------------------------------------------------------
(* Bounds of the model *)

\* declared trade amounts range over 0..MaxTrade
MaxTrade == 2
\* each random ordering of a shuffle is one of the rotations by 0..MaxRot
MaxRot == 1
\* turns an age and cards a hand in the games played to the end
SmallTurns == 2
SmallHand == 3
\* turns an age and cards a hand in the games of the rotation specification
LongTurns == 4
LongHand == 4
\* cards a hand, and the sizes of the option pools, in the setup specification
SetupHand == 2
MaxPlain == 7
MaxPersonalities == 6
MaxEffects == 3

----------------------------------------------------------------------------
(* evolve/rules/constants.py is not among the sources; the values below    *)
(* are the ones the rules of the game give, scaled where noted in conf.    *)

MINIMUM_PLAYERS == 3
INITIAL_MONEY == 3
SELL_VALUE == 3
DEFAULT_TRADE_COST == 2

TURN_COUNT == conf.TURN_COUNT
INITIAL_OPTIONS == conf.INITIAL_OPTIONS

\* option_picked = None
NoOption == 0
SCIENCE_SCORE_PER_GROUP == 7

PERSONALITY == "per"
TRADEABLE == {"bas", "cpx"}

BUILD_ACTION == "build"
FREE_ACTION == "free"
SELL_ACTION == "sell"
SPECIAL_ACTION == "spec"
PLAYER_ACTIONS == {BUILD_ACTION, FREE_ACTION, SELL_ACTION, SPECIAL_ACTION}

----------------------------------------------------------------------------
(* Small helpers *)

Min2(a, b) == IF a < b THEN a ELSE b
Max2(a, b) == IF a > b THEN a ELSE b

SetMin(S) == CHOOSE x \in S : \A y \in S : x <= y

RECURSIVE SortedSeq(_)
SortedSeq(S) == IF S = {} THEN <<>>
                ELSE LET m == SetMin(S) IN <<m>> \o SortedSeq(S \ {m})

RECURSIVE SumFn(_, _)
SumFn(S, f) == IF S = {} THEN 0
               ELSE LET x == CHOOSE x \in S : TRUE
                    IN f[x] + SumFn(S \ {x}, f)

Range(s) == {s[i] : i \in 1..Len(s)}

\* Python list slicing: s[i:] and s[:i], a negative index counting from the end
PyIndex(s, i) == IF i < 0 THEN Max2(0, Len(s) + i) ELSE Min2(i, Len(s))
PyFrom(s, i) == SubSeq(s, PyIndex(s, i) + 1, Len(s))
PyUpTo(s, i) == SubSeq(s, 1, PyIndex(s, i))

\* the list s turned left by k places
Rot(s, k) == IF Len(s) = 0 THEN s
             ELSE LET j == k % Len(s) IN PyFrom(s, j) \o PyUpTo(s, j)

----------------------------------------------------------------------------
(* The rules catalog (evolve/rules/models.py): rows loaded from fixtures   *)
(* and never changed during play.  The fixture below is a small one.       *)

Resources == {"clay", "ore"}
Sciences == {"A", "B", "C"}
KINDS == {"mil", "civ", "bas", "cpx", "eco", "sci", "per"}

NoRes == [r \in Resources |-> 0]
Res(r, a) == [NoRes EXCEPT ![r] = a]

\* Cost: money and one cost line per resource
Cost(m, res) == [money |-> m, res |-> res]
Free == Cost(0, NoRes)

\* Age rows, by order; Age.direction is the sense of the hand rotation
Ages == <<
    [order |-> 0, direction |-> "l", victory_score |-> 1, defeat_score |-> 0 - 1],
    [order |-> 1, direction |-> "r", victory_score |-> 3, defeat_score |-> 0 - 1] >>

\* Age.first(): the age of lowest order; Age.next(): the next higher, None (0)
\* after the last; the installation has the first conf.ages rows
AgeFirst == 1
AgeNext(a) == IF a < conf.ages THEN a + 1 ELSE 0

\* Effect: every field at its default
Effect0 == [
    has_production |-> FALSE, production |-> Free,
    score |-> 0, military |-> 0, sciences |-> {},
    has_trade |-> FALSE, trade |-> Free, left_trade |-> FALSE, right_trade |-> FALSE,
    kind_payed |-> "", money_per_neighbor_building |-> 0, money_per_local_building |-> 0,
    money_per_local_special |-> 0, money_per_neighbor_special |-> 0,
    free_building |-> FALSE ]

Produces(c) == [Effect0 EXCEPT !.has_production = TRUE, !.production = c]

\* Building rows; free_having = 0 when the building is free with no other
Building(kind, cost, free_having, effect) ==
    [kind |-> kind, cost |-> cost, free_having |-> free_having, effect |-> effect]

Buildings == <<
    (* 1 clay pit  *) Building("bas", Free, 0, Produces(Cost(0, Res("clay", 1)))),
    (* 2 mine      *) Building("bas", Cost(1, NoRes), 0, Produces(Cost(0, Res("ore", 1)))),
    (* 3 barracks  *) Building("mil", Cost(0, Res("ore", 1)), 0, [Effect0 EXCEPT !.military = 1]),
    (* 4 altar     *) Building("civ", Free, 0, [Effect0 EXCEPT !.score = 2]),
    (* 5 tavern    *) Building("eco", Free, 0,
                        [Produces(Cost(1, NoRes)) EXCEPT !.kind_payed = "civ",
                            !.money_per_local_building = 1, !.money_per_neighbor_building = 1]),
    (* 6 workshop  *) Building("sci", Cost(0, Res("clay", 1)), 0, [Effect0 EXCEPT !.sciences = {"A", "B"}]),
    (* 7 market    *) Building("eco", Free, 0,
                        [Effect0 EXCEPT !.has_trade = TRUE,
                            !.trade = Cost(1, [r \in Resources |-> 1]),
                            !.left_trade = TRUE, !.right_trade = TRUE]),
    (* 8 temple    *) Building("civ", Cost(0, [clay |-> 1, ore |-> 1]), 4, [Effect0 EXCEPT !.score = 3]),
    (* 9 walls     *) Building("mil", Cost(1, Res("clay", 1)), 3, [Effect0 EXCEPT !.military = 2]),
    (* 10 hero     *) Building("per", Cost(2, NoRes), 0, [Effect0 EXCEPT !.score = 1]),
    (* 11 sage     *) Building("per", Free, 0, [Effect0 EXCEPT !.sciences = {"B", "C"}]),
    (* 12 general  *) Building("per", Cost(0, Res("ore", 1)), 0, [Effect0 EXCEPT !.military = 1]) >>

\* BuildOption rows: option o offers building OptBuilding[o] in age OptAge[o]
BuildOption(age, building, players_needed) ==
    [age |-> age, building |-> building, players_needed |-> players_needed]

BuildOptions == <<
    (* age 1, ids 1..12: not personalities *)
    BuildOption(1, 1, 3), BuildOption(1, 2, 3), BuildOption(1, 4, 3),
    BuildOption(1, 3, 3), BuildOption(1, 5, 3), BuildOption(1, 6, 3),
    BuildOption(1, 7, 3), BuildOption(1, 4, 3), BuildOption(1, 1, 3),
    BuildOption(1, 3, 3), BuildOption(1, 2, 3), BuildOption(1, 6, 3),
    (* age 1, ids 13..18: personalities *)
    BuildOption(1, 10, 3), BuildOption(1, 11, 3), BuildOption(1, 12, 3),
    BuildOption(1, 10, 3), BuildOption(1, 11, 3), BuildOption(1, 12, 3),
    (* age 1, id 19: needs four players *)
    BuildOption(1, 9, 4),
    (* age 2, ids 20..31: not personalities *)
    BuildOption(2, 9, 3), BuildOption(2, 8, 3), BuildOption(2, 3, 3),
    BuildOption(2, 4, 3), BuildOption(2, 5, 3), BuildOption(2, 6, 3),
    BuildOption(2, 7, 3), BuildOption(2, 1, 3), BuildOption(2, 2, 3),
    BuildOption(2, 8, 3), BuildOption(2, 9, 3), BuildOption(2, 3, 3),
    (* age 2, ids 32..33: personalities *)
    BuildOption(2, 10, 3), BuildOption(2, 11, 3) >>

AllOptions == 1..Len(BuildOptions)
OptionBuilding(o) == BuildOptions[o].building
IsPersonality(o) == Buildings[OptionBuilding(o)].kind = PERSONALITY

\* City rows (one variant): the city's resource
Cities == << [resource |-> "clay"], [resource |-> "ore"], [resource |-> "clay"], [resource |-> "ore"] >>

\* CitySpecial rows of a city, listed by order (Meta.ordering); order is any
\* non-negative integer, unique within the city
CitySpecial(order, cost, effect) == [order |-> order, cost |-> cost, effect |-> effect]

CitySpecials == <<
    (* city 1 *) << CitySpecial(0, Cost(0, Res("ore", 1)), [Effect0 EXCEPT !.score = 3]),
                    CitySpecial(2, Cost(2, NoRes), [Effect0 EXCEPT !.military = 2]) >>,
    (* city 2 *) << CitySpecial(0, Cost(1, Res("clay", 1)), [Effect0 EXCEPT !.free_building = TRUE]) >>,
    (* city 3 *) << CitySpecial(0, Cost(4, NoRes), [Produces(Cost(1, NoRes)) EXCEPT !.money_per_local_special = 1]) >>,
    (* city 4 *) << CitySpecial(0, Cost(1, NoRes), Effect0) >> >>

----------------------------------------------------------------------------
(* Cost and Effect methods, and evolve/rules/economy.py.  These are not    *)
(* among the sources; they follow the specification (4.3, 6) and the tests *)
(* of evolve/rules/tests.py.                                               *)

\* Cost.to_list(): the (amount, resource) cost lines
to_list(cost) == {<<cost.res[r], r>> : r \in {x \in Resources : cost.res[x] > 0}}

\* the resource vectors a list of sources can supply: each source is used at
\* most once and gives one of its alternatives
RECURSIVE Supply(_)
Supply(sources) ==
    IF Len(sources) = 0 THEN {NoRes}
    ELSE LET rest == Supply(Tail(sources))
         IN rest \cup {[v EXCEPT ![alt[2]] = @ + alt[1]] : v \in rest, alt \in Head(sources)}

PaymentOption(m, l, r) == [money |-> m, trade_left |-> l, trade_right |-> r]

Price(units, costs) == SumFn(Resources, [r \in Resources |-> units[r] * costs[r]])

\* economy.get_payments: every way to cover the cost from local production,
\* money and units bought from the two neighbours at their prices
get_payments(cost, money, local, left_res, left_costs, right_res, right_costs) ==
    LET Units == [Resources -> 0..Max2(cost.res["clay"], cost.res["ore"])]
        Covers(lv, bl, br) == \A r \in Resources : lv[r] + bl[r] + br[r] >= cost.res[r]
        Needed(lv, bl, br) == \A r \in Resources : bl[r] + br[r] = Max2(0, cost.res[r] - lv[r])
        Within(b, supply) == \E v \in supply : \A r \in Resources : b[r] <= v[r]
    IN { PaymentOption(cost.money, Price(bl, left_costs), Price(br, right_costs)) :
            <<lv, bl, br>> \in
              { t \in Supply(local) \X Units \X Units :
                  /\ Covers(t[1], t[2], t[3])
                  /\ Needed(t[1], t[2], t[3])
                  /\ Within(t[2], Supply(left_res))
                  /\ Within(t[3], Supply(right_res))
                  /\ cost.money + Price(t[2], left_costs) + Price(t[3], right_costs) <= money } }

\* economy.can_pay: the option with the declared trade amounts, or None ({})
can_pay(options, trade_left, trade_right) ==
    {o \in options : o.trade_left = trade_left /\ o.trade_right = trade_right}

\* an Effect.money that pays for the production alone
EffectMoney_flat(e, own_count, left_count, right_count, own_specials, left_specials, right_specials) ==
    IF e.has_production THEN e.production.money ELSE 0

\* Effect.money(owner, left, right), from counts of buildings and specials
EffectMoney(e, own_count, left_count, right_count, own_specials, left_specials, right_specials) ==
      (IF e.has_production THEN e.production.money ELSE 0)
    + e.money_per_local_building * own_count
    + e.money_per_neighbor_building * (left_count + right_count)
    + e.money_per_local_special * own_specials
    + e.money_per_neighbor_special * (left_specials + right_specials)

----------------------------------------------------------------------------
(* Player (evolve/game/models.py).  st is the database: [game, players,    *)
(* battles] plus exc, the exception that ended the running call ("" when   *)
(* none).  self is a Player instance: a copy of the row players[self.seat].*)

Raise(st, e) == [st EXCEPT !.exc = e]

NewPlayer(seat, city) == [
    seat |-> seat, city |-> city,
    money |-> INITIAL_MONEY, specials_built |-> 0, buildings |-> {},
    current_options |-> {}, option_picked |-> NoOption, action |-> "",
    trade_left |-> 0, trade_right |-> 0 ]

\* save(): the instance's scalar fields replace the row's; the many-to-many
\* fields are not part of the row
Save(st, self) ==
    [st EXCEPT !.players[self.seat] =
        [self EXCEPT !.buildings = st.players[self.seat].buildings,
                     !.current_options = st.players[self.seat].current_options]]

left_player(st, i) == IF i > 1 THEN i - 1 ELSE Len(st.players)
right_player(st, i) == IF i < Len(st.players) THEN i + 1 ELSE 1

\* the effects of the city specials below specials_built, then of the buildings
active_effects(st, self) ==
    LET specials == CitySpecials[self.city]
        m == Cardinality({k \in 1..Len(specials) : specials[k].order < self.specials_built})
        bs == SortedSeq(st.players[self.seat].buildings)
    IN [k \in 1..m |-> specials[k].effect] \o [j \in 1..Len(bs) |-> Buildings[bs[j]].effect]

tradeable_resources(st, self) ==
    LET bs == SortedSeq({b \in st.players[self.seat].buildings :
                            /\ Buildings[b].kind \in TRADEABLE
                            /\ Buildings[b].effect.has_production})
    IN << {<<1, Cities[self.city].resource>>} >>
       \o [j \in 1..Len(bs) |-> to_list(Buildings[bs[j]].effect.production)]

trade_costs(st, self, direction) ==
    LET effs == active_effects(st, self)
        Offers(e, r) == /\ \/ direction = "l" /\ e.left_trade
                           \/ direction = "r" /\ e.right_trade
                        /\ \E alt \in to_list(e.trade) : alt[2] = r
    IN [r \in Resources |->
          IF \E k \in 1..Len(effs) : Offers(effs[k], r) /\ effs[k].trade.money < DEFAULT_TRADE_COST
          THEN SetMin({effs[k].trade.money : k \in {j \in 1..Len(effs) : Offers(effs[j], r)}})
          ELSE DEFAULT_TRADE_COST]

local_production(st, self) ==
    LET effs == active_effects(st, self)
        prod == SelectSeq(effs, LAMBDA e : e.has_production)
    IN << {<<1, Cities[self.city].resource>>} >>
       \o [j \in 1..Len(prod) |-> to_list(prod[j].production)]

can_play(st, self) == st.game.started /\ ~st.game.finished /\ self.action = ""

count(st, i, kind) == Cardinality({b \in st.players[i].buildings : Buildings[b].kind = kind})

\* military(): aggregate(Sum('military')) is {'military__sum': None} over no
\* effects, else the sum
military(st, self) ==
    LET effs == active_effects(st, self)
    IN IF Len(effs) = 0 THEN [none |-> TRUE, sum |-> 0]
       ELSE [none |-> FALSE,
             sum |-> SumFn(1..Len(effs), [k \in 1..Len(effs) |-> effs[k].military])]

\* Python 2 ordering of the two aggregates: None sorts below every number
PyGreater(a, b) == IF a.none THEN FALSE
                   ELSE IF b.none THEN TRUE
                   ELSE a.sum > b.sum

\* the score of a vector of science counts (lines 547): the smallest count
\* times the group score, plus the squares of the counts
science_value(s) ==
    SetMin({s[x] : x \in Sciences}) * SCIENCE_SCORE_PER_GROUP
        + SumFn(Sciences, [x \in Sciences |-> s[x] * s[x]])

\* a science_score that counts every effect for the first science it offers
RECURSIVE combinations_first(_, _)
combinations_first(options, old) ==
    IF Len(options) = 0 THEN old
    ELSE combinations_first(Tail(options),
             {[b EXCEPT ![CHOOSE x \in Head(options) : TRUE] = @ + 1] : b \in old})

\* the loop of lines 538-543: the count vectors after each list of sciences
RECURSIVE combinations(_, _)
combinations(options, old) ==
    IF Len(options) = 0 THEN old
    ELSE combinations(Tail(options),
             {[b EXCEPT ![science] = @ + 1] : science \in Head(options), b \in old})

\* the greatest of a set of numbers and 0 (lines 545-548)
MaxOr0(S) == IF S = {} THEN 0 ELSE Max2(0, 0 - SetMin({0 - v : v \in S}))

\* science_score() of a player with the given active effects
science_score(effects) ==
    LET with == SelectSeq(effects, LAMBDA e : e.sciences # {})
        options == [k \in 1..Len(with) |-> with[k].sciences]
    IN MaxOr0({science_value(s) : s \in combinations(options, {[x \in Sciences |-> 0]})})

\* next_special() without the order__gte filter: the first special of the city
next_special_first(self) == IF Len(CitySpecials[self.city]) = 0 THEN 0 ELSE 1

\* next_special(): the index of the lowest special with order >= specials_built, 0 for None
next_special(self) ==
    LET specials == CitySpecials[self.city]
        open == {k \in 1..Len(specials) : specials[k].order >= self.specials_built}
    IN IF open = {} THEN 0 ELSE SetMin(open)

\* an item to pay for: a Building or a CitySpecial
BuildingItem(b) == [type |-> "building", id |-> b, cost |-> Buildings[b].cost]
SpecialItem(self, k) ==
    IF k = 0 THEN [type |-> "none", id |-> 0, cost |-> Free]
    ELSE [type |-> "special", id |-> k, cost |-> CitySpecials[self.city][k].cost]

\* a payment_options that ignores free_having
payment_options_priced(st, self, item) ==
    LET owned == st.players[self.seat].buildings
    IN IF item.type = "building" /\ item.id \in owned THEN {}
       ELSE get_payments(item.cost, self.money, local_production(st, self),
                tradeable_resources(st, st.players[left_player(st, self.seat)]),
                trade_costs(st, self, "l"),
                tradeable_resources(st, st.players[right_player(st, self.seat)]),
                trade_costs(st, self, "r"))

\* payment_options(item), for an item that is not None
payment_options(st, self, item) ==
    LET owned == st.players[self.seat].buildings
    IN IF item.type = "building" /\ item.id \in owned THEN {}
       ELSE IF item.type = "building" /\ Buildings[item.id].free_having \in owned
            THEN {PaymentOption(0, 0, 0)}
       ELSE get_payments(item.cost, self.money, local_production(st, self),
                tradeable_resources(st, st.players[left_player(st, self.seat)]),
                trade_costs(st, self, "l"),
                tradeable_resources(st, st.players[right_player(st, self.seat)]),
                trade_costs(st, self, "r"))

\* can_build_free(): "False", or the NameError of line 352
can_build_free(st, self) ==
    IF ~st.game.started THEN "False"
    ELSE IF ~\E k \in DOMAIN active_effects(st, self) : active_effects(st, self)[k].free_building
         THEN "False"
    ELSE "NameError"

can_build_special(st, self) ==
    IF ~st.game.started THEN FALSE
    ELSE IF next_special(self) = 0 THEN FALSE
    ELSE payment_options(st, self, SpecialItem(self, next_special(self))) # {}

\* the money an effect gives self now: own fields from the instance,
\* the neighbours' from their rows
effect_money(st, self, e) ==
    LET l == left_player(st, self.seat)
        r == right_player(st, self.seat)
    IN EffectMoney(e, count(st, self.seat, e.kind_payed), count(st, l, e.kind_payed),
            count(st, r, e.kind_payed), self.specials_built,
            st.players[l].specials_built, st.players[r].specials_built)

\* reset_action()
reset_action(st, self) ==
    Save(st, [self EXCEPT !.action = "", !.option_picked = NoOption,
                          !.trade_left = 0, !.trade_right = 0])

\* pre_apply_action(): the local money is taken from the instance only, which
\* the caller drops (no save() follows line 416); the building is added in
\* the database
pre_apply_action(st, self) ==
    IF self.action = "" THEN Raise(st, "AssertionError")
    ELSE IF self.action \notin {BUILD_ACTION, FREE_ACTION} THEN st
    ELSE LET item == IF self.action = BUILD_ACTION
                     THEN BuildingItem(OptionBuilding(self.option_picked))
                     ELSE SpecialItem(self, next_special(self))
         IN IF item.type = "none" THEN Raise(st, "AttributeError")
            ELSE IF can_pay(payment_options(st, self, item), self.trade_left, self.trade_right) = {}
                 THEN Raise(st, "AssertionError")
            ELSE [st EXCEPT !.players[self.seat].buildings =
                                @ \cup {OptionBuilding(self.option_picked)}]

\* "Pay!": the credit goes to a fresh copy of the neighbour's row that is
\* dropped, and save() is called on another fresh copy; only self is debited
PayTrade(st, self) ==
    LET s1 == IF self.trade_left # 0
              THEN Save(st, st.players[left_player(st, self.seat)]) ELSE st
        s2 == IF self.trade_right # 0
              THEN Save(s1, s1.players[right_player(s1, self.seat)]) ELSE s1
    IN [st |-> s2, self |-> [self EXCEPT !.money = @ - self.trade_left - self.trade_right]]

\* an apply_action that leaves the played option in the hand
RemoveOption_keep(st, self) == st

\* line 483: the played option leaves the hand
RemoveOption(st, self) ==
    [st EXCEPT !.players[self.seat].current_options = @ \ {self.option_picked}]

\* apply_action()
apply_action(st, self) ==
    IF self.action = "" THEN Raise(st, "AssertionError")
    ELSE IF self.action = SELL_ACTION THEN
        LET s1 == [st EXCEPT !.game.discards = @ \cup {self.option_picked}]
        IN RemoveOption(Save(s1, [self EXCEPT !.money = @ + SELL_VALUE]), self)
    ELSE IF self.action = BUILD_ACTION THEN
        LET paid == PayTrade(st, self)
            e == Buildings[OptionBuilding(self.option_picked)].effect
        IN RemoveOption(Save(paid.st,
              [paid.self EXCEPT !.money = @ + effect_money(paid.st, paid.self, e)]), self)
    ELSE IF self.action = FREE_ACTION THEN
        \* assert self.can_build_free(): False fails the assertion, and the
        \* third check of can_build_free raises NameError
        Raise(st, IF can_build_free(st, self) = "False" THEN "AssertionError" ELSE "NameError")
    ELSE IF self.action = SPECIAL_ACTION THEN
        IF ~can_build_special(st, self) THEN Raise(st, "AssertionError")
        ELSE LET k == next_special(self)
                 paid == PayTrade(st, self)
                 e == CitySpecials[self.city][k].effect
             IN RemoveOption(Save(paid.st,
                   [paid.self EXCEPT !.money = @ + effect_money(paid.st, paid.self, e),
                                     !.specials_built = CitySpecials[self.city][k].order + 1]), self)
    ELSE Raise(st, "AssertionError")

----------------------------------------------------------------------------
(* Game (evolve/game/models.py).  G is the Game instance the call runs on: *)
(* a copy of the row game.  rnd = <<r1, r2, r3>> are the three random      *)
(* orderings of a shuffle.                                                 *)

\* Game.save(): the scalar fields of the instance replace the row's
SaveGame(st, G) == [st EXCEPT !.game = [G EXCEPT !.discards = st.game.discards]]

Eligible(G, n) == {o \in conf.options : BuildOptions[o].age = G.age
                                        /\ BuildOptions[o].players_needed <= n}

\* a shuffle that does not remove the options the personalities replace
ShuffledOptions_untrimmed(G, n, rnd) ==
    LET required_options == n * INITIAL_OPTIONS
        options == Rot(SortedSeq({o \in Eligible(G, n) : ~IsPersonality(o)}), rnd[1])
        personalities == Rot(SortedSeq({o \in Eligible(G, n) : IsPersonality(o)}), rnd[2])
        required_personalities == required_options - Len(options)
        actual_personalities == Min2(Max2(2 + n, required_personalities), Len(personalities))
    IN Rot(options \o PyUpTo(personalities, actual_personalities), rnd[3])

\* a shuffle that recommends one personality a player
ShuffledOptions_few(G, n, rnd) ==
    LET required_options == n * INITIAL_OPTIONS
        options == Rot(SortedSeq({o \in Eligible(G, n) : ~IsPersonality(o)}), rnd[1])
        personalities == Rot(SortedSeq({o \in Eligible(G, n) : IsPersonality(o)}), rnd[2])
        required_personalities == required_options - Len(options)
        actual_personalities == Min2(Max2(n, required_personalities), Len(personalities))
        kept == PyUpTo(personalities, actual_personalities)
    IN Rot(PyUpTo(options, required_options - Len(kept)) \o kept, rnd[3])

\* the list of options shuffle() deals, before the length check
ShuffledOptions(G, n, rnd) ==
    LET required_options == n * INITIAL_OPTIONS
        options == Rot(SortedSeq({o \in Eligible(G, n) : ~IsPersonality(o)}), rnd[1])
        personalities == Rot(SortedSeq({o \in Eligible(G, n) : IsPersonality(o)}), rnd[2])
        required_personalities == required_options - Len(options)
        recommended_personalities == 2 + n
        actual_personalities ==
            Min2(Max2(recommended_personalities, required_personalities), Len(personalities))
        kept == PyUpTo(personalities, actual_personalities)
    IN Rot(PyUpTo(options, required_options - Len(kept)) \o kept, rnd[3])

RECURSIVE DealHands(_, _, _)
DealHands(st, options, i) ==
    IF i > Len(st.players) THEN st
    ELSE IF st.players[i].current_options # {} THEN Raise(st, "AssertionError")
    ELSE DealHands([st EXCEPT !.players[i].current_options =
                                  Range(PyUpTo(options, INITIAL_OPTIONS))],
                   PyFrom(options, INITIAL_OPTIONS), i + 1)

\* shuffle()
shuffle(st, G, rnd) ==
    LET n == Len(st.players)
        required_options == n * INITIAL_OPTIONS
        options == ShuffledOptions(G, n, rnd)
    IN IF ~G.started \/ G.finished THEN Raise(st, "AssertionError")
       ELSE IF Cardinality(Eligible(G, n)) < required_options THEN Raise(st, "DoesNotExist")
       ELSE IF Len(options) # required_options THEN Raise(st, "AssertionError")
       ELSE DealHands(st, options, 1)

\* the BattleResult rows of one player, left neighbour first
BattlesOf(st, G, i) ==
    LET Fight(nb, d) ==
            LET local == military(st, st.players[i])
                foreign == military(st, st.players[nb])
            IN IF local # foreign
               THEN << [owner |-> i, direction |-> d, age |-> G.age,
                        result |-> IF PyGreater(local, foreign) THEN "v" ELSE "d"] >>
               ELSE << >>
    IN Fight(left_player(st, i), "l") \o Fight(right_player(st, i), "r")

RECURSIVE AllBattles(_, _, _)
AllBattles(st, G, i) ==
    IF i > Len(st.players) THEN << >>
    ELSE BattlesOf(st, G, i) \o AllBattles(st, G, i + 1)

\* end_of_age(), lines 129-132: every hand goes to the discard pile
DiscardHands(st) ==
    [st EXCEPT !.game.discards =
                   @ \cup UNION {st.players[i].current_options : i \in 1..Len(st.players)},
               !.players = [i \in 1..Len(st.players) |->
                              [st.players[i] EXCEPT !.current_options = {}]]]

\* end_of_age(), lines 133-140
Battle(st, G) == [st EXCEPT !.battles = @ \o AllBattles(st, G, 1)]

\* end_of_age(), lines 141-151
AdvanceAge(st, G, rnd) ==
    IF AgeNext(G.age) = 0 THEN SaveGame(st, [G EXCEPT !.finished = TRUE])
    ELSE shuffle(SaveGame(st, [G EXCEPT !.age = AgeNext(G.age), !.turn = 1]),
                 [G EXCEPT !.age = AgeNext(G.age), !.turn = 1], rnd)

\* end_of_age()
end_of_age(st, G, rnd) == AdvanceAge(Battle(DiscardHands(st), G), G, rnd)

RECURSIVE PreApplyPass(_, _, _)
PreApplyPass(st, instances, i) ==
    IF i > Len(instances) \/ st.exc # "" THEN st
    ELSE PreApplyPass(pre_apply_action(st, instances[i]), instances, i + 1)

RECURSIVE ApplyPass(_, _, _)
ApplyPass(st, instances, i) ==
    IF i > Len(instances) \/ st.exc # "" THEN st
    ELSE ApplyPass(apply_action(st, instances[i]), instances, i + 1)

\* a rotation that exchanges the first two hands
RotateOptions_swap(opts, direction) == << opts[2], opts[1] >> \o PyFrom(opts, 2)

\* a rotation that turns left in every age
RotateOptions_left(opts, direction) == PyFrom(opts, 1) \o PyUpTo(opts, 1)

\* the hands after the rotation of end_of_turn
RotateOptions(opts, direction) ==
    IF direction = "l" THEN PyFrom(opts, 1) \o PyUpTo(opts, 1)
    ELSE PyFrom(opts, 0 - 1) \o PyUpTo(opts, 0 - 1)

\* a resolution in one pass: each player pre-applies and applies in turn
RECURSIVE SinglePass(_, _, _)
SinglePass(st, instances, i) ==
    IF i > Len(instances) \/ st.exc # "" THEN st
    ELSE SinglePass(ApplyPass(pre_apply_action(st, instances[i]), << instances[i] >>, 1),
                    instances, i + 1)
Passes_single(st) == SinglePass(st, st.players, 1)

\* end_of_turn(), lines 156-159: the two passes, each over fresh instances
PreApplyAll(st) == PreApplyPass(st, st.players, 1)
ApplyAll(st) == ApplyPass(st, st.players, 1)
Passes(st) == ApplyAll(PreApplyAll(st))

\* end_of_turn(), lines 161-169
Rotate(st, G) ==
    IF st.exc # "" THEN st
    ELSE IF Ages[G.age].direction \notin {"l", "r"} THEN Raise(st, "AssertionError")
    ELSE [st EXCEPT !.players = [i \in 1..Len(st.players) |->
            [st.players[i] EXCEPT !.current_options =
                RotateOptions([j \in 1..Len(st.players) |-> st.players[j].current_options],
                              Ages[G.age].direction)[i]]]]

\* end_of_turn(), lines 171-175
NextTurn(st, G, rnd) ==
    IF st.exc # "" THEN st
    ELSE IF G.turn + 1 > TURN_COUNT THEN end_of_age(st, [G EXCEPT !.turn = @ + 1], rnd)
    ELSE SaveGame(st, [G EXCEPT !.turn = @ + 1])

RECURSIVE ResetPass(_, _)
ResetPass(st, i) ==
    IF i > Len(st.players) THEN st
    ELSE ResetPass(reset_action(st, st.players[i]), i + 1)

\* end_of_turn(), lines 177-178
ResetAll(st) == IF st.exc # "" THEN st ELSE [ResetPass(st, 1) EXCEPT !.eot = "done"]

\* end_of_turn(); eot records how far it got
end_of_turn(st, G, rnd) ==
    ResetAll(NextTurn(Rotate(Passes([st EXCEPT !.eot = "entered"]), G), G, rnd))

missing_players(st) == {i \in 1..Len(st.players) : st.players[i].action = ""}

\* a turn_check that does not wait for the last player
turn_check_lax(st, G, rnd) ==
    IF Cardinality(missing_players(st)) <= 1 THEN end_of_turn(st, G, rnd) ELSE st

\* turn_check()
turn_check(st, G, rnd) == IF missing_players(st) = {} THEN end_of_turn(st, G, rnd) ELSE st

Decision(action, option, trade_left, trade_right) ==
    [action |-> action, option |-> option, trade_left |-> trade_left, trade_right |-> trade_right]

\* a play that takes an option the player does not hold
play_accepts_any(st, self, d) == d.action \in PLAYER_ACTIONS

\* the assertions of play(): those of lines 372-374 compare the option with an
\* action name, which never are equal, so they check nothing
play_accepts(st, self, d) ==
    /\ d.action \in PLAYER_ACTIONS
    /\ d.option \in st.players[self.seat].current_options

\* a play that also pays the player a coin
play_save_paid(st, self, d) ==
    Save(st, [self EXCEPT !.action = d.action, !.option_picked = d.option,
                          !.trade_left = d.trade_left, !.trade_right = d.trade_right,
                          !.money = @ + 1])

\* a play whose record depends on who has decided before
play_save_counting(st, self, d) ==
    Save(st, [self EXCEPT !.action = d.action, !.option_picked = d.option,
                          !.trade_left = d.trade_left + Cardinality(missing_players(st)),
                          !.trade_right = d.trade_right])

\* play(): record the decision, save, turn_check
play_save(st, self, d) ==
    Save(st, [self EXCEPT !.action = d.action, !.option_picked = d.option,
                          !.trade_left = d.trade_left, !.trade_right = d.trade_right])

play(st, self, d, rnd) ==
    IF ~play_accepts(st, self, d) THEN Raise(st, "AssertionError")
    ELSE turn_check(play_save(st, self, d), st.game, rnd)

is_joinable(st) ==
    /\ ~st.game.started
    /\ conf.cities \ {st.players[i].city : i \in 1..Len(st.players)} # {}

\* join(): a player with a random free city, seated last
join(st, city) ==
    IF ~is_joinable(st) THEN Raise(st, "AssertionError")
    ELSE [st EXCEPT !.players = Append(@, NewPlayer(Len(@) + 1, city))]

is_startable(st) == ~st.game.started /\ Len(st.players) >= MINIMUM_PLAYERS

\* start()
start(st, rnd) ==
    IF \/ ~is_startable(st)
       \/ st.game.finished
       \/ st.game.age # AgeFirst
       \/ st.game.discards # {}
       \/ st.game.turn # 1
    THEN Raise(st, "AssertionError")
    ELSE shuffle(SaveGame(st, [st.game EXCEPT !.started = TRUE]),
                 [st.game EXCEPT !.started = TRUE], rnd)

----------------------------------------------------------------------------
(* The state machine.  Every operation runs on the rows as they are and    *)
(* leaves what it wrote, an exception included: nothing is rolled back.    *)

DB == [game |-> game, players |-> players, battles |-> battles, exc |-> "", eot |-> "none"]

\* Game(): the row of a new game
NewGame == [started |-> FALSE, finished |-> FALSE, age |-> AgeFirst, turn |-> 1,
            discards |-> {}]

Idle == [pc |-> "idle", G |-> NewGame]

NoLast == [op |-> "none", seat |-> 0, exc |-> "", eot |-> "none", missing |-> {},
           shuffled |-> FALSE, ended |-> 0]

\* the random orderings of one shuffle
Rnd == (0..conf.rot) \X (0..conf.rot) \X (0..conf.rot)

\* the option rows of an installation with a plain and p personality options an age
Pool(a, p) == {o \in AllOptions :
                   \/ o \in 1..a
                   \/ o \in 13..(12 + p)
                   \/ o \in 20..(19 + a)
                   \/ o \in 32..(31 + Min2(p, 2))}

Conf(turns, hand, ages, cities, options, rot, menu, wide) ==
    [TURN_COUNT |-> turns, INITIAL_OPTIONS |-> hand, ages |-> ages, cities |-> cities,
     options |-> options, rot |-> rot, menu |-> menu, wild |-> IF wide THEN 1 ELSE 0]

\* a game played to the end: two ages, all hands dealt from a sufficient pool
FullConf == Conf(SmallTurns, SmallHand, 2, {1, 2, 3}, Pool(3 * SmallHand - 1, 1), 0, "narrow", FALSE)
\* a game of one age in which one decision is drawn from the wide menu
WildConf == Conf(SmallTurns, SmallHand, 1, {1, 2, 3}, Pool(3 * SmallHand - 1, 1), 0, "narrow", TRUE)

\* no function of the rules is being evaluated
NoCall == [fn |-> "", args |-> << >>, value |-> 0, done |-> FALSE]

hands(ps) == [i \in 1..Len(ps) |-> ps[i].current_options]

\* three players have joined, in the order of their cities
Seated(n) == [i \in 1..n |-> NewPlayer(i, i)]

InitWith(confs, n) ==
    /\ conf \in confs
    /\ game = NewGame
    /\ players = Seated(n)
    /\ battles = << >>
    /\ procs = [i \in 1..n |-> Idle]
    /\ last = NoLast
    /\ dealt = [i \in 1..n |-> {}]
    /\ wild = conf.wild
    /\ call = NoCall

Init == InitWith({FullConf, WildConf}, 3)

\* the rows an operation leaves, and what is observed of it
Write(op, seat, missing, st) ==
    /\ game' = st.game
    /\ players' = st.players
    /\ battles' = st.battles
    /\ last' = [op |-> op, seat |-> seat, exc |-> st.exc, eot |-> st.eot,
                missing |-> missing,
                shuffled |-> st.exc = "" /\ (op = "start" \/ st.game.age # game.age),
                ended |-> IF st.exc = "" /\ st.eot = "done"
                             /\ (st.game.age # game.age \/ st.game.finished # game.finished)
                          THEN game.age ELSE 0]
    /\ dealt' = IF st.exc = "" /\ (op = "start" \/ st.game.age # game.age)
                THEN hands(st.players)
                ELSE [i \in 1..Len(st.players) |-> IF i \in DOMAIN dealt THEN dealt[i] ELSE {}]
    /\ UNCHANGED conf

\* an operation that runs alone, from its call to its return
Commit(op, seat, missing, st) ==
    /\ Write(op, seat, missing, st)
    /\ procs' = [i \in 1..Len(st.players) |-> Idle]

Join ==
    \E city \in conf.cities \ {players[i].city : i \in 1..Len(players)} :
        /\ Commit("join", Len(players) + 1, {}, join(DB, city))
        /\ UNCHANGED <<wild, call>>

Start ==
    /\ ~game.started
    /\ \E rnd \in Rnd : Commit("start", 0, {}, start(DB, rnd))
    /\ UNCHANGED <<wild, call>>

Lowest(hand) == SetMin(hand)
Highest(hand) == 0 - SetMin({0 - o : o \in hand})

\* the decisions a client offers: the first card of the hand, sold or built
NarrowMenu(hand) ==
    IF hand = {} THEN {}
    ELSE {Decision(SELL_ACTION, Lowest(hand), 0, 0), Decision(BUILD_ACTION, Lowest(hand), 0, 0)}

\* the first or the last card of the hand, sold
SellMenu(hand) ==
    IF hand = {} THEN {}
    ELSE {Decision(SELL_ACTION, o, 0, 0) : o \in {Lowest(hand), Highest(hand)}}

\* every action on every card of the hand, with every declared trade
WideMenu(hand) ==
    {Decision(a, o, l, r) : a \in PLAYER_ACTIONS, o \in hand, l \in 0..MaxTrade, r \in 0..MaxTrade}

\* the first card of the hand, sold
LowestMenu(hand) == IF hand = {} THEN {} ELSE {Decision(SELL_ACTION, Lowest(hand), 0, 0)}

\* the first card of the hand, sold or spent on the next special, paying the
\* right neighbour nothing or the price of one resource
SpecialMenu(hand) ==
    IF hand = {} THEN {}
    ELSE {Decision(SELL_ACTION, Lowest(hand), 0, 0)}
         \cup {Decision(SPECIAL_ACTION, Lowest(hand), 0, r) : r \in {0, DEFAULT_TRADE_COST}}

\* the menu of a client: under "narrow" the last player of the ring always
\* sells
Menu(i) ==
    IF conf.menu = "sell" THEN SellMenu(players[i].current_options)
    ELSE IF conf.menu = "special" THEN SpecialMenu(players[i].current_options)
    ELSE IF conf.menu = "lowest" \/ i = Len(players)
         THEN LowestMenu(players[i].current_options)
    ELSE NarrowMenu(players[i].current_options)

\* what is missing right after the decision is saved (observed by turn_check)
MissingAfter(i, d) ==
    IF play_accepts(DB, players[i], d) THEN missing_players(play_save(DB, players[i], d))
    ELSE missing_players(DB)

\* a player who can play submits a decision of the menu
Play(i) ==
    /\ can_play(DB, players[i])
    /\ \E d \in Menu(i), rnd \in Rnd :
           Commit("play", i, MissingAfter(i, d), play(DB, players[i], d, rnd))
    /\ UNCHANGED <<wild, call>>

\* any player submits any decision, whatever the phase
WildPlay(i) ==
    /\ wild > 0
    /\ wild' = wild - 1
    /\ UNCHANGED call
    /\ \E d \in WideMenu(players[i].current_options), rnd \in Rnd :
           Commit("play", i, MissingAfter(i, d), play(DB, players[i], d, rnd))

\* Calls made when the game is over: anyone may still call join(), start(),
\* turn_check(), or play() with an option that was dealt or with none.
LateJoin ==
    /\ game.finished
    /\ \E city \in conf.cities : Commit("join", 0, {}, join(DB, city))
    /\ UNCHANGED <<wild, call>>

LateStart ==
    /\ game.finished
    /\ \E rnd \in Rnd : Commit("start", 0, {}, start(DB, rnd))
    /\ UNCHANGED <<wild, call>>

LateTurnCheck ==
    /\ game.finished
    /\ \E rnd \in Rnd : Commit("turn_check", 0, missing_players(DB), turn_check(DB, game, rnd))
    /\ UNCHANGED <<wild, call>>

LatePlay(i) ==
    /\ game.finished
    /\ \E a \in PLAYER_ACTIONS, o \in dealt[i] \cup {NoOption}, rnd \in Rnd :
           Commit("play", i, MissingAfter(i, Decision(a, o, 0, 0)),
                  play(DB, players[i], Decision(a, o, 0, 0), rnd))
    /\ UNCHANGED <<wild, call>>

Next ==
    \/ Start
    \/ \E i \in 1..Len(players) : Play(i)
    \/ \E i \in 1..Len(players) : WildPlay(i)
    \/ LateJoin
    \/ LateStart
    \/ LateTurnCheck
    \/ \E i \in 1..Len(players) : LatePlay(i)

Spec == Init /\ [][Next]_vars

----------------------------------------------------------------------------
(* Requests served at the same time.  Nothing in play(), turn_check() or   *)
(* end_of_turn() takes a lock or opens a transaction, so the steps of the  *)
(* play() calls of different players interleave: save (line 380), the      *)
(* query of turn_check (line 191), the passes and the rotation of          *)
(* end_of_turn (lines 156-169), and its turn counter and reset (171-178).  *)

ConcConf == Conf(SmallTurns, SmallHand, 1, {1, 2, 3}, Pool(3 * SmallHand - 1, 1), 0, "narrow", FALSE)

InitConc == InitWith({ConcConf}, 3)

Move(i, pc, G) == procs' = [procs EXCEPT ![i] = [pc |-> pc, G |-> G]]

\* play(), lines 370-380
Submit(i) ==
    /\ procs[i].pc = "idle"
    /\ can_play(DB, players[i])
    /\ \E d \in Menu(i) :
           /\ play_accepts(DB, players[i], d)
           /\ Write("save", i, MissingAfter(i, d), play_save(DB, players[i], d))
    /\ Move(i, "saved", procs[i].G)
    /\ UNCHANGED <<wild, call>>

\* play(), line 382, and turn_check(), line 191: self.game is loaded, the
\* missing players are queried
Check(i) ==
    /\ procs[i].pc = "saved"
    /\ Move(i, IF missing_players(DB) = {} THEN "resolving" ELSE "idle", game)
    /\ UNCHANGED <<conf, game, players, battles, last, dealt, wild, call>>

\* end_of_turn(), lines 156-169
Apply(i) ==
    /\ procs[i].pc = "resolving"
    /\ Write("apply", i, {}, Rotate(Passes([DB EXCEPT !.eot = "entered"]), procs[i].G))
    /\ Move(i, IF Passes([DB EXCEPT !.eot = "entered"]).exc = "" THEN "closing" ELSE "idle",
            procs[i].G)
    /\ UNCHANGED <<wild, call>>

\* end_of_turn(), lines 171-178
Close(i) ==
    /\ procs[i].pc = "closing"
    /\ \E rnd \in Rnd :
           Write("close", i, {}, ResetAll(NextTurn([DB EXCEPT !.eot = "entered"], procs[i].G, rnd)))
    /\ Move(i, "idle", procs[i].G)
    /\ UNCHANGED <<wild, call>>

NextConc ==
    \/ Start
    \/ \E i \in 1..Len(players) : Submit(i)
    \/ \E i \in 1..Len(players) : Check(i)
    \/ \E i \in 1..Len(players) : Apply(i)
    \/ \E i \in 1..Len(players) : Close(i)

SpecConc == InitConc /\ [][NextConc]_vars

----------------------------------------------------------------------------
(* Setting a game up: players join one by one, each with a random free     *)
(* city, and the game is started, over installations of different sizes.   *)

SetupConfs ==
    {Conf(1, SetupHand, 2, {1, 2, 3, 4}, Pool(a, p), MaxRot, "lowest", FALSE) :
        a \in {2, MaxPlain}, p \in {1, MaxPersonalities}}

InitSetup == InitWith(SetupConfs, 0)

NextSetup == Join \/ Start

SpecSetup == InitSetup /\ [][NextSetup]_vars

----------------------------------------------------------------------------
(* Dealing: games of three or four players over every size of the option   *)
(* pool, each age one turn long, every player selling the first card.      *)

DealConfs(n) ==
    {Conf(1, SetupHand, 2, 1..n, Pool(a, p), MaxRot, "lowest", FALSE) :
        a \in 0..MaxPlain, p \in 0..MaxPersonalities}

InitDeal == \E n \in {MINIMUM_PLAYERS, MINIMUM_PLAYERS + 1} : InitWith(DealConfs(n), n)

NextDeal == Start \/ \E i \in 1..Len(players) : Play(i)

SpecDeal == InitDeal /\ [][NextDeal]_vars

----------------------------------------------------------------------------
(* Rotation: ages longer than the ring, every player selling a card.       *)

RotConfs ==
    {Conf(LongTurns, LongHand, 1, {1, 2, 3}, Pool(12, 6), 0, "sell", FALSE),
     Conf(LongTurns, LongHand, 2, {1, 2, 3}, Pool(12, 6), 0, "lowest", FALSE)}

InitRot == InitWith(RotConfs, 3)

SpecRot == InitRot /\ [][NextDeal]_vars

-----------------------------------------------------------------------------
(* City specials: one age in which every player sells or builds the next   *)
(* special of the city.                                                    *)

SpecialConf == Conf(SmallTurns, SmallHand, 1, {1, 2, 3}, Pool(3 * SmallHand - 1, 1), 0, "special", FALSE)

InitSpecial == InitWith({SpecialConf}, 3)

SpecSpecial == InitSpecial /\ [][NextDeal]_vars

-----------------------------------------------------------------------------
(* Functions of the rules, called on their own: the arguments are drawn in *)
(* the initial state and one step evaluates the call.                      *)

\* the initial state with a call fn(args) to evaluate, before any player joins
InitCall(fn, argss) ==
    /\ conf = FullConf
    /\ game = NewGame /\ players = << >> /\ battles = << >>
    /\ procs = << >> /\ last = NoLast /\ dealt = << >> /\ wild = 0
    /\ call \in {[fn |-> fn, args |-> a, value |-> 0, done |-> FALSE] : a \in argss}

\* the call returns v
Return(v) ==
    /\ ~call.done
    /\ call' = [call EXCEPT !.value = v, !.done = TRUE]
    /\ UNCHANGED <<conf, game, players, battles, procs, last, dealt, wild>>

\* the lists of at most n elements of S
RECURSIVE ListsUpTo(_, _)
ListsUpTo(S, n) ==
    IF n = 0 THEN {<< >>}
    ELSE ListsUpTo(S, n - 1) \cup {Append(l, x) : l \in ListsUpTo(S, n - 1), x \in S}

\* an effect that offers the sciences of menu
Offers(menu) == [Effect0 EXCEPT !.sciences = menu]

\* science_score() for a player whose active effects offer the given menus,
\* some of them empty
InitScience == InitCall("science_score", ListsUpTo(SUBSET Sciences, MaxEffects))

EvalScience ==
    /\ call.fn = "science_score"
    /\ Return(science_score([k \in 1..Len(call.args) |-> Offers(call.args[k])]))

SpecScience == InitScience /\ [][EvalScience]_vars

\* Score (evolve/rules/models.py, not among the sources; from the
\* specification and ScoreTest): a named tuple of seven numbers with its own
\* +, new() and total()
ScoreFields == <<"treasury", "military", "special", "civilian", "economy", "science", "personality">>
Score(tre, mil, spe, civ, eco, sci, per) == <<tre, mil, spe, civ, eco, sci, per>>
ScoreNew == Score(0, 0, 0, 0, 0, 0, 0)

\* the + of a plain tuple: concatenation
ScoreAdd_concat(a, b) == a \o b

ScoreAdd(a, b) == [k \in 1..Len(ScoreFields) |-> a[k] + b[k]]
ScoreTotal(a) == SumFn(1..Len(a), a)

\* the scores of ScoreTest, and every score of zeros and ones
TestScores == {ScoreNew, Score(1, 3, 5, 7, 2, 4, 6), Score(3, 3, 3, 3, 3, 3, 3),
               Score(1, 2, 3, 4, 5, 6, 7), Score(4, 6, 8, 10, 5, 7, 9)}
SmallScores == {[k \in 1..Len(ScoreFields) |-> IF k \in on THEN 1 ELSE 0] :
                   on \in SUBSET (1..Len(ScoreFields))}

\* Score.new() + a + b, as in ScoreTest.test_add
InitScore == InitCall("score_add", (TestScores \cup SmallScores) \X TestScores)

EvalScore ==
    /\ call.fn = "score_add"
    /\ Return(ScoreAdd(ScoreAdd(ScoreNew, call.args[1]), call.args[2]))

SpecScore == InitScore /\ [][EvalScore]_vars

\* Effect.money(owner, left, right) on the players of EffectTest: a player
\* answers specials(), defeats() and count(kind)
mock_player(specials, defeats, kinds) == [specials |-> specials, defeats |-> defeats, kinds |-> kinds]
Kinds(civ, mil, sci) == [k \in KINDS |-> IF k = "civ" THEN civ ELSE IF k = "mil" THEN mil
                                        ELSE IF k = "sci" THEN sci ELSE 0]
CountOf(p, kind) == IF kind \in KINDS THEN p.kinds[kind] ELSE 0
money(e, owner, left, right) ==
    EffectMoney(e, CountOf(owner, e.kind_payed), CountOf(left, e.kind_payed),
        CountOf(right, e.kind_payed), owner.specials, left.specials, right.specials)

\* the effects and players of EffectTest, and small ones around them
\* Effect(production, kind_payed, money per neighbour building, per local
\* building, per neighbour special, per local special)
MoneyEffect(production, kind, nb, lb, ns, ls) ==
    [(IF production > 0 THEN Produces(Cost(production, NoRes)) ELSE Effect0) EXCEPT
        !.kind_payed = kind,
        !.money_per_neighbor_building = nb,
        !.money_per_local_building = lb,
        !.money_per_neighbor_special = ns,
        !.money_per_local_special = ls]
TestEffects ==
    {MoneyEffect(3, "", 0, 0, 0, 0), MoneyEffect(0, "civ", 2, 0, 0, 0),
     MoneyEffect(0, "civ", 0, 3, 0, 0), MoneyEffect(0, "", 0, 0, 2, 0),
     MoneyEffect(0, "", 0, 0, 0, 2), MoneyEffect(3, "civ", 2, 3, 2, 1)}
    \cup {MoneyEffect(p, k, nb, lb, ns, ls) :
             p \in {0, 1}, k \in {"civ", "mil"}, nb \in {0, 1}, lb \in {0, 1},
             ns \in {0, 1}, ls \in {0, 1}}
TestPlayers ==
    {mock_player(1, 1, Kinds(1, 4, 0)), mock_player(3, 1, Kinds(2, 0, 4)),
     mock_player(5, 1, Kinds(3, 0, 0)), mock_player(1, 1, Kinds(2, 4, 0))}
SmallPlayers ==
    {mock_player(s, d, Kinds(c, m, 0)) : s \in {0, 2}, d \in {0, 3}, c \in {0, 1}, m \in {0, 2}}

InitMoney ==
    InitCall("money", TestEffects \X (TestPlayers \cup SmallPlayers) \X TestPlayers \X TestPlayers)

EvalMoney ==
    /\ call.fn = "money"
    /\ Return(money(call.args[1], call.args[2], call.args[3], call.args[4]))

SpecMoney == InitMoney /\ [][EvalMoney]_vars

----------------------------------------------------------------------------
(* Properties *)

\* the pending decision of a player
Pending(p) == <<p.action, p.option_picked, p.trade_left, p.trade_right>>
NoPending == <<"", NoOption, 0, 0>>

\* a player row without its pending decision
Holdings(p) == [p EXCEPT !.action = "", !.option_picked = NoOption,
                         !.trade_left = 0, !.trade_right = 0]

\* C1 - Turn barrier: end_of_turn is entered only when, the submitted
\* decision saved, no player is missing; a play() that leaves a player
\* missing enters no resolution and leaves the turn counter, the hands, the
\* money and the buildings as they were; and when a resolution has completed
\* every player's pending decision is empty again.
C1_TurnBarrier ==
    [][last'.op = "play" =>
         /\ (last'.eot # "none" => last'.missing = {})
         /\ (last'.missing # {} =>
                /\ last'.eot = "none"
                /\ game'.turn = game.turn
                /\ \A i \in 1..Len(players) :
                       /\ players'[i].current_options = players[i].current_options
                       /\ players'[i].money = players[i].money
                       /\ players'[i].buildings = players[i].buildings)
         /\ (last'.eot = "done" =>
                \A i \in 1..Len(players') : Pending(players'[i]) = NoPending)]_vars

\* a resolution has completed after the last of the players decided
C1_Witness ==
    /\ last.op = "play" /\ last.eot = "done" /\ last.missing = {}
    /\ game.turn = 2
    /\ \A i \in 1..Len(players) : Pending(players[i]) = NoPending

\* C3 - Frame of a submission: an accepted play() of player p that leaves a
\* player undecided changes nothing but p's pending decision: the game row,
\* the battle results, every other player row and p's own holdings stay.
C3_SubmissionFrame ==
    [][(last'.op = "play" /\ last'.exc = "" /\ last'.missing # {}) =>
         /\ game' = game
         /\ battles' = battles
         /\ Len(players') = Len(players)
         /\ \A j \in 1..Len(players) :
                IF j = last'.seat THEN Holdings(players'[j]) = Holdings(players[j])
                ELSE players'[j] = players[j]]_vars

\* a decision was accepted and recorded while another player is undecided
C3_Witness ==
    /\ last.op = "play" /\ last.exc = "" /\ last.missing # {}
    /\ players[last.seat].action # ""
    /\ players[last.seat].option_picked \in players[last.seat].current_options

\* the rows two submissions made one after the other leave; the second
\* player's instance is loaded after the first submission
Rows(st) == <<st.game, st.players, st.battles>>
ThenPlay(st, b, dB, rnd) ==
    play([st EXCEPT !.exc = "", !.eot = "none"], st.players[b], dB, rnd)
PlayBoth(a, dA, b, dB) ==
    {Rows(ThenPlay(play(DB, players[a], dA, r1), b, dB, r2)) : r1 \in Rnd, r2 \in Rnd}

Commutes(pairs) ==
    \A ab \in pairs :
        \A dA \in NarrowMenu(players[ab[1]].current_options),
           dB \in NarrowMenu(players[ab[2]].current_options) :
            PlayBoth(ab[1], dA, ab[2], dB) = PlayBoth(ab[2], dB, ab[1], dA)

Resolving == {i \in 1..Len(players) : procs[i].pc \in {"resolving", "closing"}}

\* C2 - Mutual exclusion of resolution: at most one end_of_turn is in
\* progress for the game at any time.
C2_OneResolution == Cardinality(Resolving) <= 1

\* C5 - Failed start leaves the game unstarted: after a start() that failed
\* for want of options, started is false and no player holds an option.
C5_FailedStartUnstarted ==
    (last.op = "start" /\ last.exc = "DoesNotExist") =>
        /\ ~game.started
        /\ \A i \in 1..Len(players) : players[i].current_options = {}

\* what the deal of the current age has to draw from
RequiredOptions == Len(players) * INITIAL_OPTIONS
Plain == {o \in Eligible(game, Len(players)) : ~IsPersonality(o)}
Personalities == {o \in Eligible(game, Len(players)) : IsPersonality(o)}
Dealt == UNION {players[i].current_options : i \in 1..Len(players)}

\* C6 - Dealing: after every successful shuffle every hand has exactly
\* INITIAL_OPTIONS options, all of them eligible options of the current
\* age, no option is in two hands, n * INITIAL_OPTIONS options are dealt in
\* all; and a shuffle fails only for want of options, never by its own
\* length check.
C6_Dealing ==
    /\ last.shuffled =>
          /\ \A i \in 1..Len(players) :
                 /\ Cardinality(players[i].current_options) = INITIAL_OPTIONS
                 /\ players[i].current_options \subseteq Eligible(game, Len(players))
          /\ \A i, j \in 1..Len(players) :
                 i # j => players[i].current_options \cap players[j].current_options = {}
          /\ Cardinality(Dealt) = RequiredOptions
    /\ last.exc # "" =>
          /\ last.exc = "DoesNotExist"
          /\ Cardinality(Plain) + Cardinality(Personalities) < RequiredOptions

\* the shuffle of an age transition has dealt, from a pool with more
\* options than are needed
C6_Witness ==
    /\ last.shuffled /\ last.op = "play" /\ game.age = 2
    /\ Cardinality(Plain) + Cardinality(Personalities) > RequiredOptions
    /\ \A i \in 1..Len(players) : Cardinality(players[i].current_options) = INITIAL_OPTIONS

\* C7 - Personality count in a deal: the personalities among the dealt
\* options number min(max(n + 2, required_personalities), available), with
\* required_personalities = n * INITIAL_OPTIONS - (plain options).
C7_PersonalityCount ==
    last.shuffled =>
        Cardinality({o \in Dealt : IsPersonality(o)}) =
            Min2(Max2(Len(players) + 2, RequiredOptions - Cardinality(Plain)),
                 Cardinality(Personalities))

\* a deal that needed more personalities than the recommended n + 2
C7_Witness ==
    /\ last.shuffled
    /\ RequiredOptions - Cardinality(Plain) > Len(players) + 2
    /\ Cardinality({o \in Dealt : IsPersonality(o)}) = RequiredOptions - Cardinality(Plain)

\* C8 - Rotation cycle: n turn resolutions after the deal of an age, with
\* no age change in between, every player holds what is left of the hand
\* that player was dealt: the dealt hand without the options played since.
C8_RotationCycle ==
    (game.started /\ ~game.finished /\ game.turn = Len(players) + 1) =>
        \A i \in 1..Len(players) : players[i].current_options = dealt[i] \cap Dealt

\* the players hold the rest of their own hands in an age turning right
C8_Witness ==
    /\ game.started /\ ~game.finished /\ game.turn = Len(players) + 1
    /\ game.age = 2 /\ Ages[game.age].direction = "r"
    /\ \A i \in 1..Len(players) :
           /\ players[i].current_options # {}
           /\ players[i].current_options = dealt[i] \cap Dealt
           /\ Cardinality(dealt[i] \ players[i].current_options) = Len(players)

\* the military power of a player: the sum over the player's active effects
Power(i) == IF military(DB, players[i]).none THEN 0 ELSE military(DB, players[i]).sum
Neighbour(i, d) == IF d = "l" THEN left_player(DB, i) ELSE right_player(DB, i)
BattleRows(i, d, age) ==
    {k \in 1..Len(battles) : /\ battles[k].owner = i /\ battles[k].direction = d
                             /\ battles[k].age = age}

\* C9 - Battles at end of age: when an age has ended, for every player and
\* either neighbour there is a BattleResult of that age exactly if the two
\* military powers differ, one only, and it is a victory exactly if the
\* player's power is the higher.
C9_Battles ==
    last.ended # 0 =>
        \A i \in 1..Len(players), d \in {"l", "r"} :
            IF Power(i) = Power(Neighbour(i, d)) THEN BattleRows(i, d, last.ended) = {}
            ELSE /\ Cardinality(BattleRows(i, d, last.ended)) = 1
                 /\ \A k \in BattleRows(i, d, last.ended) :
                        battles[k].result = "v" <=> Power(i) > Power(Neighbour(i, d))

\* C10 - Turn-counter range: after every operation that returned, in a game
\* not started, started or finished, 1 <= turn <= TURN_COUNT.
C10_TurnRange == last.exc = "" => (1 <= game.turn /\ game.turn <= TURN_COUNT)

\* C11 - Finished is terminal: once the game is finished, no call of play,
\* start, join or turn_check changes the game row, a player row (money,
\* buildings, specials_built, hand, pending decision) or the battle results.
C11_FinishedTerminal ==
    [][game.finished => /\ game' = game
                        /\ players' = players
                        /\ battles' = battles]_vars

\* a play() made after the end of the game has been refused
C11_Witness ==
    /\ game.finished
    /\ last.op = "play" /\ last.exc = "AssertionError" /\ last.eot = "none"
    /\ game.turn = TURN_COUNT + 1

\* the decision just recorded by a play() that resolved nothing
JustRecorded(i, action) ==
    /\ last.op = "play" /\ last.seat = i /\ last.exc = "" /\ last.eot = "none"
    /\ players[i].action = action

\* the payment that matches the trade amounts player i has declared for item
DeclaredPayment(i, item) ==
    can_pay(payment_options(DB, players[i], item), players[i].trade_left, players[i].trade_right)

\* C12 - Build validation at submission: a Build that play() has recorded
\* has a payment option for the option's building whose trade amounts are
\* the declared ones.
C12_BuildValidated ==
    \A i \in 1..Len(players) :
        JustRecorded(i, BUILD_ACTION) =>
            DeclaredPayment(i, BuildingItem(OptionBuilding(players[i].option_picked))) # {}

\* C13 - SpecialBuild validation at submission: a SpecialBuild that play()
\* has recorded is one the player can build: a next special exists and has
\* a payment option.
C13_SpecialValidated ==
    \A i \in 1..Len(players) :
        JustRecorded(i, SPECIAL_ACTION) => can_build_special(DB, players[i])

\* C14 - FreeBuild once per age: a FreeBuild that play() has recorded is
\* submitted by a player with an active effect that has the free_building
\* flag.
C14_FreeValidated ==
    \A i \in 1..Len(players) :
        JustRecorded(i, FREE_ACTION) =>
            \E k \in DOMAIN active_effects(DB, players[i]) :
                active_effects(DB, players[i])[k].free_building

\* C15 - Wrong-phase submission: a play() by a player who has a pending
\* decision is rejected and leaves the recorded decision as it was.
C15_NoResubmission ==
    [][(last'.op = "play" /\ last'.seat \in 1..Len(players)
            /\ players[last'.seat].action # "") =>
         /\ last'.exc = "AssertionError"
         /\ Pending(players'[last'.seat]) = Pending(players[last'.seat])]_vars

\* C16 - No failure inside resolution: an end_of_turn that was entered has
\* run to its end, with no exception.
C16_ResolutionCompletes ==
    (last.op = "play" /\ last.eot # "none") => (last.eot = "done" /\ last.exc = "")

\* the submissions that complete the barrier in this state: the one missing
\* player with a decision that player can submit now
LastMoves ==
    IF game.started /\ ~game.finished /\ Cardinality(missing_players(DB)) = 1
    THEN {<<i, d>> \in (1..Len(players)) \X WideMenu(UNION {players[k].current_options : k \in 1..Len(players)}) :
             /\ i \in missing_players(DB)
             /\ d.option \in players[i].current_options
             /\ \/ can_play(DB, players[i]) /\ d \in Menu(i)
                \/ wild > 0}
    ELSE {}

\* the player rows when the last decision is saved, and the database when
\* play() returns
RowsBefore(i, d) == play_save(DB, players[i], d).players
After(i, d) == play(DB, players[i], d, CHOOSE rnd \in Rnd : TRUE)

\* what the rules charge and pay player j, whose rows before the resolution
\* are b and after it a
Spends(b, j) == b[j].action \in {BUILD_ACTION, SPECIAL_ACTION}
TradeOut(b, j) == IF Spends(b, j) THEN b[j].trade_left + b[j].trade_right ELSE 0
TradeIn(b, j) ==
    LET n == Len(b)
        l == IF j > 1 THEN j - 1 ELSE n
        r == IF j < n THEN j + 1 ELSE 1
    IN (IF Spends(b, l) THEN b[l].trade_right ELSE 0)
       + (IF Spends(b, r) THEN b[r].trade_left ELSE 0)
LocalMoney(b, j) ==
    IF b[j].action = BUILD_ACTION
    THEN IF Buildings[OptionBuilding(b[j].option_picked)].free_having \in b[j].buildings
         THEN 0 ELSE Buildings[OptionBuilding(b[j].option_picked)].cost.money
    ELSE IF b[j].action = SPECIAL_ACTION /\ next_special(b[j]) # 0
    THEN CitySpecials[b[j].city][next_special(b[j])].cost.money
    ELSE 0
BuildIncome(b, a, j) ==
    effect_money(a, b[j], Buildings[OptionBuilding(b[j].option_picked)].effect)

\* C17 - Build payment accounting: when a turn has resolved in which player
\* j played Build, j's money is the money before, less the local money of
\* the payment and the declared trades, plus the effect money of the
\* building and the trades the neighbours paid j; and j owns the building.
C17_BuildAccounting ==
    \A m \in LastMoves :
        After(m[1], m[2]).eot = "done" =>
            \A j \in 1..Len(players) :
                RowsBefore(m[1], m[2])[j].action = BUILD_ACTION =>
                    /\ After(m[1], m[2]).players[j].money =
                           RowsBefore(m[1], m[2])[j].money
                           - LocalMoney(RowsBefore(m[1], m[2]), j)
                           - TradeOut(RowsBefore(m[1], m[2]), j)
                           + BuildIncome(RowsBefore(m[1], m[2]), After(m[1], m[2]), j)
                           + TradeIn(RowsBefore(m[1], m[2]), j)
                    /\ OptionBuilding(RowsBefore(m[1], m[2])[j].option_picked)
                           \in After(m[1], m[2]).players[j].buildings

\* the effect money player j is paid for what j builds in the turn
Income(b, a, j) ==
    IF b[j].action = BUILD_ACTION THEN BuildIncome(b, a, j)
    ELSE IF b[j].action = SPECIAL_ACTION /\ next_special(b[j]) # 0
    THEN effect_money(a, b[j], CitySpecials[b[j].city][next_special(b[j])].effect)
    ELSE 0

\* C18 - Trade settlement is a transfer: when a turn has resolved, a player
\* who sold has the money before plus SELL_VALUE plus the trades the
\* neighbours declared towards that player, and a player who built with a
\* payment of no local money has the money before, less the declared trades,
\* plus the effect money and the trades received.
C18_TradeTransfer ==
    \A m \in LastMoves :
        After(m[1], m[2]).eot = "done" =>
            \A j \in 1..Len(players) :
                /\ RowsBefore(m[1], m[2])[j].action = SELL_ACTION =>
                       After(m[1], m[2]).players[j].money =
                           RowsBefore(m[1], m[2])[j].money + SELL_VALUE
                           + TradeIn(RowsBefore(m[1], m[2]), j)
                /\ (Spends(RowsBefore(m[1], m[2]), j)
                        /\ LocalMoney(RowsBefore(m[1], m[2]), j) = 0) =>
                       After(m[1], m[2]).players[j].money =
                           RowsBefore(m[1], m[2])[j].money
                           - TradeOut(RowsBefore(m[1], m[2]), j)
                           + Income(RowsBefore(m[1], m[2]), After(m[1], m[2]), j)
                           + TradeIn(RowsBefore(m[1], m[2]), j)

\* the payment options for the next special of player j, whose decision is
\* in rows b, that use the trades j declared
SpecialPayment(b, j) ==
    can_pay(payment_options([DB EXCEPT !.players = b], b[j],
                SpecialItem(b[j], next_special(b[j]))),
            b[j].trade_left, b[j].trade_right)

\* C19 - SpecialBuild pays for the special: when a turn has resolved in
\* which player j played SpecialBuild, the next special has a payment option
\* with the trades j declared, and j (when the neighbours pay j nothing) has
\* the money before, less the local money of that option and the declared
\* trades, plus the effect money of the special.
C19_SpecialPays ==
    \A m \in LastMoves :
        After(m[1], m[2]).eot = "done" =>
            \A j \in 1..Len(players) :
                RowsBefore(m[1], m[2])[j].action = SPECIAL_ACTION =>
                    /\ SpecialPayment(RowsBefore(m[1], m[2]), j) # {}
                    /\ TradeIn(RowsBefore(m[1], m[2]), j) = 0 =>
                           After(m[1], m[2]).players[j].money =
                               RowsBefore(m[1], m[2])[j].money
                               - LocalMoney(RowsBefore(m[1], m[2]), j)
                               - TradeOut(RowsBefore(m[1], m[2]), j)
                               + Income(RowsBefore(m[1], m[2]), After(m[1], m[2]), j)

\* C20 - Money is never negative: every player's stored money is at least 0.
C20_MoneyNonNegative == \A i \in 1..Len(players) : players[i].money >= 0

\* the order of the lowest special of a city with order >= n, -1 if none
NextOrder(city, n) ==
    LET os == {CitySpecials[city][k].order : k \in 1..Len(CitySpecials[city])}
    IN IF {o \in os : o >= n} = {} THEN 0 - 1 ELSE SetMin({o \in os : o >= n})

\* the highest order among the specials of a city
HighestOrder(city) ==
    0 - SetMin({0 - CitySpecials[city][k].order : k \in 1..Len(CitySpecials[city])})

\* C21 - specials_built is monotone and in order: no step decreases a
\* player's specials_built; a step that changes it sets it to the order of
\* the lowest special with order >= the old value, plus 1; a resolved
\* SpecialBuild does so, and a resolved Build, FreeBuild or Sell leaves it
\* unchanged; and it never exceeds the highest order of the city plus 1.
C21_SpecialsInOrder ==
    /\ [](\A i \in 1..Len(players) :
             players[i].specials_built <= HighestOrder(players[i].city) + 1)
    /\ [](\A m \in LastMoves : \A j \in 1..Len(players) :
             /\ (After(m[1], m[2]).eot = "done"
                     /\ RowsBefore(m[1], m[2])[j].action = SPECIAL_ACTION) =>
                    After(m[1], m[2]).players[j].specials_built =
                        NextOrder(players[j].city, players[j].specials_built) + 1
             /\ RowsBefore(m[1], m[2])[j].action \in {BUILD_ACTION, FREE_ACTION, SELL_ACTION} =>
                    After(m[1], m[2]).players[j].specials_built = players[j].specials_built)
    /\ [][\A i \in 1..Len(players) :
             /\ players'[i].specials_built >= players[i].specials_built
             /\ players'[i].specials_built # players[i].specials_built =>
                    players'[i].specials_built =
                        NextOrder(players[i].city, players[i].specials_built) + 1]_vars

\* player 1 has built both specials of city 1, whose orders are 0 and 2
C21_Witness ==
    /\ last.op = "play" /\ last.exc = "" /\ last.eot = "done"
    /\ players[1].specials_built = 3
    /\ players[2].specials_built = 1

\* the options in the players' hands in rows a
InHands(a) == UNION {a[k].current_options : k \in 1..Len(a)}

\* the Sell part of a resolution that took the rows b to the database a
SellResolved(b, a) ==
    a.eot = "done" =>
        \A j \in 1..Len(b) :
            b[j].action = SELL_ACTION =>
                /\ a.players[j].money = b[j].money + SELL_VALUE
                /\ b[j].option_picked \in a.game.discards
                /\ b[j].option_picked \in b[j].current_options
                /\ b[j].option_picked \notin InHands(a.players)
                /\ a.players[j].buildings = b[j].buildings
                /\ a.players[j].specials_built = b[j].specials_built

\* C22 - Sell: when a turn has resolved in which player j sold option o, j's
\* money is the money before plus SELL_VALUE, o is in the discard pile and
\* in no hand, j's buildings and specials_built are as before, and a
\* neighbour of j who sold too has that neighbour's money before plus
\* SELL_VALUE, no more.
C22_Sell ==
    \A m \in LastMoves : SellResolved(RowsBefore(m[1], m[2]), After(m[1], m[2]))

\* a turn has resolved in which player 1 sold the card that now lies on the
\* discard pile, while player 2 built
C22_Witness ==
    /\ last.op = "play" /\ last.exc = "" /\ last.eot = "done"
    /\ game.turn = 2 /\ game.age = AgeFirst
    /\ players[1].money = INITIAL_MONEY + SELL_VALUE
    /\ players[1].buildings = {}
    /\ players[2].buildings # {}
    /\ game.discards \cap dealt[1] # {}

\* the step is a call of play() whose turn resolution ran to its end
ResolvedStep == last'.op = "play" /\ last'.exc = "" /\ last'.eot = "done"

\* the step leaves every player with a full hand of options of age a
Redealt(a) ==
    \A i \in 1..Len(players') :
        /\ Cardinality(players'[i].current_options) = INITIAL_OPTIONS
        /\ \A o \in players'[i].current_options : BuildOptions[o].age = a

\* C23 - Age progression: the age changes only in a turn resolution that
\* starts at turn TURN_COUNT, to the next age, with the turn back at 1 and
\* fresh hands dealt; a resolution at a lower turn adds 1 to the turn and
\* keeps the age; a resolution at turn TURN_COUNT moves to the next age, or,
\* in the last age, finishes the game; and the game finishes in no other way.
C23_AgeProgression ==
    [][/\ game'.age # game.age =>
              /\ last'.op = "play"
              /\ game.turn = TURN_COUNT
              /\ AgeNext(game.age) # 0
              /\ game'.age = AgeNext(game.age)
              /\ game'.turn = 1
              /\ ~game'.finished
              /\ Redealt(game'.age)
       /\ (ResolvedStep /\ game.turn < TURN_COUNT) =>
              /\ game'.age = game.age
              /\ game'.turn = game.turn + 1
              /\ ~game'.finished
       /\ (ResolvedStep /\ game.turn = TURN_COUNT) =>
              IF AgeNext(game.age) = 0
              THEN game'.finished /\ game'.age = game.age
              ELSE game'.age = AgeNext(game.age)
       /\ (game'.finished /\ ~game.finished) =>
              /\ ResolvedStep
              /\ game.turn = TURN_COUNT
              /\ AgeNext(game.age) = 0
       /\ (game.started /\ game'.turn # game.turn) => last'.eot # "none"]_vars

\* the ways to count each effect that offers sciences for one of them
Assignments(menus) ==
    LET offering == {k \in 1..Len(menus) : menus[k] # {}}
    IN {f \in [offering -> Sciences] : \A k \in offering : f[k] \in menus[k]}

\* the science counts of an assignment
Counts(f) == [x \in Sciences |-> Cardinality({k \in DOMAIN f : f[k] = x})]

\* v is the greatest value of an assignment of the menus
IsOptimum(v, menus) ==
    /\ \E f \in Assignments(menus) : v = science_value(Counts(f))
    /\ \A f \in Assignments(menus) : v >= science_value(Counts(f))

\* C24 - Science score is the optimum: science_score() is the greatest, over
\* the assignments of one offered science to each effect that offers
\* sciences, of the smallest count times SCIENCE_SCORE_PER_GROUP plus the sum
\* of the squared counts; it is 0 when no effect offers a science, and 4 for
\* the menus {A, B} and {B, C}.
C24_ScienceOptimum ==
    (call.fn = "science_score" /\ call.done) =>
        /\ IsOptimum(call.value, call.args)
        /\ (\A k \in 1..Len(call.args) : call.args[k] = {}) => call.value = 0
        /\ call.args = << {"A", "B"}, {"B", "C"} >> => call.value = 4

\* the score of the menus {A, B}, {B, C} and {A, C} has been computed: one of
\* each science is a group
C24_Witness ==
    /\ call.fn = "science_score" /\ call.done
    /\ call.args = << {"A", "B"}, {"B", "C"}, {"A", "C"} >>
    /\ call.value = SCIENCE_SCORE_PER_GROUP + 3

\* PaymentOption(): pay nothing
PayNothing == PaymentOption(0, 0, 0)

\* player i owns building b; player i does not, but owns what makes b free
Owns(i, b) == b \in players[i].buildings
OwnsPrerequisite(i, b) ==
    /\ b \notin players[i].buildings
    /\ Buildings[b].free_having \in players[i].buildings

\* C25 as stated - Degenerate payment: payment_options(item) is the one
\* option "pay nothing" when the player owns the item, and when the player
\* owns the item's free_having prerequisite.
C25_DegenerateOwned ==
    \A i \in 1..Len(players) : \A b \in 1..Len(Buildings) :
        (Owns(i, b) \/ OwnsPrerequisite(i, b)) =>
            payment_options(DB, players[i], BuildingItem(b)) = {PayNothing}

\* C25 - Degenerate payment: payment_options(item) has no option when the
\* player owns the item, and is the one option "pay nothing" when the player
\* does not own the item but owns its free_having prerequisite.
C25_Degenerate ==
    \A i \in 1..Len(players) : \A b \in 1..Len(Buildings) :
        /\ Owns(i, b) => payment_options(DB, players[i], BuildingItem(b)) = {}
        /\ OwnsPrerequisite(i, b) =>
               payment_options(DB, players[i], BuildingItem(b)) = {PayNothing}

\* player 1 owns the altar, which makes the temple free, and a player owns
\* the barracks, which make the walls free
C25_Witness ==
    /\ Owns(1, 4) /\ OwnsPrerequisite(1, 8)
    /\ \E j \in 1..Len(players) : OwnsPrerequisite(j, 9)

\* C26 - Score algebra: a Score has 7 fields; Score.new() is all zeros and
\* adding it on either side changes nothing; + adds field by field and in
\* either order gives the same; total() is the sum of the 7 fields, so the
\* total of a sum is the sum of the totals; zero + (1,3,5,7,2,4,6) +
\* (3,3,3,3,3,3,3) is (4,6,8,10,5,7,9), whose total is 49.
C26_ScoreAlgebra ==
    (call.fn = "score_add" /\ call.done) =>
        LET a == call.args[1]
            b == call.args[2]
        IN /\ Len(call.value) = 7 /\ Len(ScoreNew) = 7
           /\ \A k \in 1..7 : ScoreNew[k] = 0 /\ call.value[k] = a[k] + b[k]
           /\ ScoreAdd(ScoreNew, a) = a /\ ScoreAdd(a, ScoreNew) = a
           /\ ScoreAdd(a, b) = ScoreAdd(b, a)
           /\ ScoreTotal(call.value) =
                  call.value[1] + call.value[2] + call.value[3] + call.value[4]
                  + call.value[5] + call.value[6] + call.value[7]
           /\ ScoreTotal(ScoreAdd(a, b)) = ScoreTotal(a) + ScoreTotal(b)
           /\ (a = Score(1, 3, 5, 7, 2, 4, 6) /\ b = Score(3, 3, 3, 3, 3, 3, 3)) =>
                  /\ call.value = Score(4, 6, 8, 10, 5, 7, 9)
                  /\ ScoreTotal(call.value) = 49

\* the sum of ScoreTest.test_add has been computed
C26_Witness ==
    /\ call.fn = "score_add" /\ call.done
    /\ call.args = <<Score(1, 3, 5, 7, 2, 4, 6), Score(3, 3, 3, 3, 3, 3, 3)>>
    /\ call.value = Score(4, 6, 8, 10, 5, 7, 9)

\* a player like p with other numbers of defeats and of military and science
\* buildings
Otherwise(p) ==
    [p EXCEPT !.defeats = @ + 1, !.kinds["mil"] = @ + 2, !.kinds["sci"] = @ + 1,
              !.kinds["bas"] = @ + 3]

\* C27 - Effect money accumulates: money(effect, owner, left, right) is the
\* production money, plus money_per_local_building for each building of
\* kind_payed of the owner, plus money_per_neighbor_building for each one of
\* the neighbours, plus money_per_local_special for each special of the
\* owner, plus money_per_neighbor_special for each one of the neighbours;
\* defeats and buildings of other kinds do not change it; the effect and
\* players of test_money_effects_accumulate give 33.
C27_MoneyAccumulates ==
    (call.fn = "money" /\ call.done) =>
        LET e == call.args[1]
            owner == call.args[2]
            left == call.args[3]
            right == call.args[4]
            paid == IF e.kind_payed = "civ" THEN "civ" ELSE "mil"
        IN /\ call.value =
                  (IF e.has_production THEN e.production.money ELSE 0)
                  + (IF e.kind_payed = "" THEN 0
                     ELSE e.money_per_local_building * owner.kinds[paid]
                          + e.money_per_neighbor_building
                                * (left.kinds[paid] + right.kinds[paid]))
                  + e.money_per_local_special * owner.specials
                  + e.money_per_neighbor_special * (left.specials + right.specials)
           /\ e.kind_payed # "mil" =>
                  money(e, Otherwise(owner), Otherwise(left), Otherwise(right)) = call.value
           /\ (/\ e = MoneyEffect(3, "civ", 2, 3, 2, 1)
               /\ owner = mock_player(1, 1, Kinds(1, 4, 0))
               /\ left = mock_player(3, 1, Kinds(2, 0, 4))
               /\ right = mock_player(5, 1, Kinds(3, 0, 0))) => call.value = 33

\* the money of test_money_effects_accumulate has been computed
C27_Witness ==
    /\ call.fn = "money" /\ call.done
    /\ call.args = <<MoneyEffect(3, "civ", 2, 3, 2, 1), mock_player(1, 1, Kinds(1, 4, 0)),
                     mock_player(3, 1, Kinds(2, 0, 4)), mock_player(5, 1, Kinds(3, 0, 0))>>
    /\ call.value = 33

\* the database after the two passes of the resolution that the last decision
\* d of player i starts, and after the rotation that follows them
AfterPasses(i, d) == Passes([play_save(DB, players[i], d) EXCEPT !.eot = "entered"])
AfterRotation(i, d) == Rotate(AfterPasses(i, d), game)

\* the neighbour whose hand player j receives in an age of the given direction
GivingNeighbour(j, direction) ==
    IF direction = "l" THEN right_player(DB, j) ELSE left_player(DB, j)

\* the rotation of a resolution that took the rows b through the passes (p)
\* and the rotation (r) to the database a
RotationResolved(b, p, r, a) ==
    a.eot = "done" =>
        \A j \in 1..Len(b) :
            /\ r.players[j].current_options =
                   p.players[GivingNeighbour(j, Ages[game.age].direction)].current_options
            /\ game.turn < TURN_COUNT =>
                   a.players[j].current_options =
                       b[GivingNeighbour(j, Ages[game.age].direction)].current_options
                       \ {b[GivingNeighbour(j, Ages[game.age].direction)].option_picked}

\* C28 - Rotation direction per step: in a turn resolution every player's
\* hand after the rotation is the hand the right neighbour held after the
\* passes when the age turns left ('l'), the left neighbour's when it turns
\* right ('r'); and when the resolution does not end the age, every
\* player's hand after it is that neighbour's hand before it without the
\* option that neighbour played.
C28_RotationStep ==
    \A m \in LastMoves :
        RotationResolved(RowsBefore(m[1], m[2]), AfterPasses(m[1], m[2]),
            AfterRotation(m[1], m[2]), After(m[1], m[2]))

\* after the first resolution of the second age, which turns right, player 2
\* holds what player 1 was dealt, and player 1 what player 3 was dealt
C28_Witness ==
    /\ last.op = "play" /\ last.exc = "" /\ last.eot = "done"
    /\ game.age = 2 /\ Ages[game.age].direction = "r" /\ game.turn = 2
    /\ players[2].current_options # {} /\ players[2].current_options \subseteq dealt[1]
    /\ players[1].current_options # {} /\ players[1].current_options \subseteq dealt[3]
    /\ Cardinality(players[2].current_options) = INITIAL_OPTIONS - 1

\* what player k builds in the turn whose decisions are in rows b
Built(b, k) ==
    IF b[k].action = BUILD_ACTION THEN {OptionBuilding(b[k].option_picked)} ELSE {}

\* the buildings of a kind that player k has once the turn's buildings stand
CountWithBuilt(b, k, kind) ==
    Cardinality({x \in b[k].buildings \cup Built(b, k) : Buildings[x].kind = kind})

\* the effect money of the building player j builds, counted over the
\* buildings of j and of both neighbours with those built in the same turn
IncomeWithBuilt(b, j) ==
    LET e == Buildings[OptionBuilding(b[j].option_picked)].effect
        l == left_player(DB, j)
        r == right_player(DB, j)
    IN EffectMoney(e, CountWithBuilt(b, j, e.kind_payed), CountWithBuilt(b, l, e.kind_payed),
           CountWithBuilt(b, r, e.kind_payed),
           b[j].specials_built, b[l].specials_built, b[r].specials_built)

\* the effect money of the Builds of a resolution that took the rows b to
\* the database a
IncomeResolved(b, a) ==
    a.eot = "done" =>
        \A j \in 1..Len(b) :
            (/\ b[j].action = BUILD_ACTION
             /\ LocalMoney(b, j) = 0
             /\ TradeOut(b, j) = 0
             /\ TradeIn(b, j) = 0) =>
                a.players[j].money = b[j].money + IncomeWithBuilt(b, j)

\* C29 - Two-pass ordering: when a turn has resolved in which player j
\* played Build, the effect money j received counts the buildings of j and
\* of both neighbours including those the three built in that same turn,
\* wherever they sit in the ring (here for a Build that costs j no money
\* and with no trade from or to j, so that j's money changes by the effect
\* money alone).
C29_TwoPass ==
    \A m \in LastMoves : IncomeResolved(RowsBefore(m[1], m[2]), After(m[1], m[2]))

\* player 1 built the tavern in the turn in which player 2, who sits after
\* player 1, built an altar: the tavern paid 1 and 1 for the altar
C29_Witness ==
    /\ last.op = "play" /\ last.exc = "" /\ last.eot = "done"
    /\ players[1].buildings = {1, 5}
    /\ players[1].money = INITIAL_MONEY + 2
    /\ players[2].buildings = {4}

\* C30 - Hand-size invariant: between the operations of a started, unfinished
\* game every hand has INITIAL_OPTIONS - (turn - 1) options and no option is
\* in two hands; in a finished game every hand is empty and the options
\* dealt in the last age that were not built are in the discard pile.
C30_HandSize ==
    /\ (game.started /\ ~game.finished) =>
           /\ \A i \in 1..Len(players) :
                  Cardinality(players[i].current_options) = INITIAL_OPTIONS - (game.turn - 1)
           /\ \A i, j \in 1..Len(players) :
                  i # j => players[i].current_options \cap players[j].current_options = {}
    /\ game.finished =>
           /\ \A i \in 1..Len(players) : players[i].current_options = {}
           /\ \A o \in UNION {dealt[i] : i \in 1..Len(players)} :
                  \/ o \in game.discards
                  \/ \E i \in 1..Len(players) : OptionBuilding(o) \in players[i].buildings

-----------------------------------------------------------------------------
(* Progress: started games whose catalog fills every hand of every age, in *)
(* which each request runs alone and a player who has no pending decision  *)
(* eventually submits one (a game of two ages with Sell and Build, and a   *)
(* game of one age with Sell and the next special).                        *)

ProgressConfs == {FullConf, SpecialConf}

InitProgress == InitWith(ProgressConfs, 3)

\* what is observed of a play() request of seat i that has returned
Errors == {"", "AssertionError", "AttributeError", "DoesNotExist", "NameError"}
Observations(i) ==
    [op : {"play"}, seat : {i}, exc : Errors, eot : {"none", "entered", "done"},
     missing : SUBSET (1..MINIMUM_PLAYERS), shuffled : BOOLEAN, ended : 0..FullConf.ages]

\* the play() request of a player who could play is served
Served(i) == can_play(DB, players[i]) /\ last' \in Observations(i)

\* a player who has no pending decision eventually submits one
Fairness == \A i \in 1..MINIMUM_PLAYERS : WF_last(Served(i))

\* the steps of Play(i) are the steps that serve player i, and each shows in
\* what is observed
ServedIsPlay ==
    [][\A i \in 1..MINIMUM_PLAYERS : (Play(i) <=> Served(i)) /\ (Served(i) => last' # last)]_vars

SpecProgress == InitProgress /\ [][NextDeal]_vars /\ Fairness

\* the same fairness in games in which every player sells a card
SpecSellProgress == InitRot /\ [][NextDeal]_vars /\ Fairness

\* every player has decided and the game is not over
AllDecided == game.started /\ ~game.finished /\ missing_players(DB) = {}

\* C31 - Progress to the end: in a started game whose catalog has enough
\* options for every age, when every player without a pending decision
\* eventually submits a decision that play() accepts, the game eventually
\* is finished, and a state in which every player has decided while the
\* game is not over does not last.
C31_Progress ==
    /\ game.started ~> game.finished
    /\ AllDecided ~> ~AllDecided

====
